---- MODULE Spec2Model ----
(***************************************************************************)
(* The configuration subsystem of esmvalcore/configuration/_config_object. *)
(* Config is a validating mapping (MutableMapping over dict); the module   *)
(* keeps three process-wide instances (config_default, config,             *)
(* config_orig) and fills them from YAML documents read by                 *)
(* read_config_file.                                                       *)
(*                                                                         *)
(* Text is modelled by TLA+ strings (character i of s is SubSeq(s, i, i)), *)
(* a Python dict by the sequence of its <<key, value>> pairs in insertion  *)
(* order, a Python value by a record tagged with its type in field t.      *)
(***************************************************************************)
EXTENDS Integers, Sequences, FiniteSets, TLC

\* ------------------------------------------------------------------ text

Char(s, i) == SubSeq(s, i, i)

\* The characters the model uses, in ascending code point order.
CodeOrder == " *-./0123456789ABCDEFGHIJKLMNOPQRSTUVWXYZ[]^_abcdefghijklmnopqrstuvwxyz{}~"

OrdTable ==
    [c \in {Char(CodeOrder, i) : i \in 1..Len(CodeOrder)} |->
        CHOOSE i \in 1..Len(CodeOrder) : Char(CodeOrder, i) = c]

Ord(c) == OrdTable[c]

\* Python's str.__lt__: the first differing character decides, a proper
\* prefix is smaller.
RECURSIVE StrLessFrom(_, _, _)
StrLessFrom(a, b, i) ==
    IF i > Len(b) THEN FALSE
    ELSE IF i > Len(a) THEN TRUE
    ELSE IF Char(a, i) = Char(b, i) THEN StrLessFrom(a, b, i + 1)
    ELSE Ord(Char(a, i)) < Ord(Char(b, i))

StrLess(a, b) == StrLessFrom(a, b, 1)

\* sorted() over a sequence of distinct strings.
RECURSIVE InsertSorted(_, _)
InsertSorted(sorted, k) ==
    IF sorted = <<>> THEN <<k>>
    ELSE IF StrLess(k, Head(sorted)) THEN <<k>> \o sorted
    ELSE <<Head(sorted)>> \o InsertSorted(Tail(sorted), k)

RECURSIVE SortedFrom(_, _)
SortedFrom(sorted, ks) ==
    IF ks = <<>> THEN sorted
    ELSE SortedFrom(InsertSorted(sorted, Head(ks)), Tail(ks))

Sorted(ks) == SortedFrom(<<>>, ks)

\* str.split(sep) for a one-character separator.
RECURSIVE Split(_, _)
Split(s, sep) ==
    IF \A i \in 1..Len(s) : Char(s, i) # sep THEN <<s>>
    ELSE LET i == CHOOSE j \in 1..Len(s) :
                     /\ Char(s, j) = sep
                     /\ \A h \in 1..(j - 1) : Char(s, h) # sep
         IN  <<SubSeq(s, 1, i - 1)>> \o Split(SubSeq(s, i + 1, Len(s)), sep)

\* str.strip() for blanks.
RECURSIVE Strip(_)
Strip(s) ==
    IF s = "" THEN s
    ELSE IF Char(s, 1) = " " THEN Strip(SubSeq(s, 2, Len(s)))
    ELSE IF Char(s, Len(s)) = " " THEN Strip(SubSeq(s, 1, Len(s) - 1))
    ELSE s

Contains(s, c) == \E i \in 1..Len(s) : Char(s, i) = c

\* ----------------------------------------------------- regular expressions
\* re.compile for the pattern language the module's callers use: a leading
\* "^" anchors the match at the start, "." matches any character, "[...]"
\* matches one character of the class, any other character matches itself.

RECURSIVE ReTokens(_)
ReTokens(p) ==
    IF p = "" THEN <<>>
    ELSE IF Char(p, 1) = "." THEN
        <<[any |-> TRUE, set |-> {}]>> \o ReTokens(SubSeq(p, 2, Len(p)))
    ELSE IF Char(p, 1) = "[" /\ Contains(p, "]") THEN
        LET e == CHOOSE j \in 1..Len(p) :
                     /\ Char(p, j) = "]"
                     /\ \A h \in 1..(j - 1) : Char(p, h) # "]"
        IN  <<[any |-> FALSE, set |-> {Char(p, h) : h \in 2..(e - 1)}]>>
                \o ReTokens(SubSeq(p, e + 1, Len(p)))
    ELSE <<[any |-> FALSE, set |-> {Char(p, 1)}]>>
             \o ReTokens(SubSeq(p, 2, Len(p)))

ReCompile(p) ==
    LET anchored == Len(p) > 0 /\ Char(p, 1) = "^"
    IN  [anchored |-> anchored,
         toks |-> ReTokens(IF anchored THEN SubSeq(p, 2, Len(p)) ELSE p)]

ReMatchAt(toks, s, i) ==
    /\ i + Len(toks) - 1 <= Len(s)
    /\ \A j \in 1..Len(toks) :
          toks[j].any \/ Char(s, i + j - 1) \in toks[j].set

\* pattern_re.search(key)
ReSearch(re, s) ==
    \E i \in (IF re.anchored THEN {1} ELSE 1..(Len(s) + 1)) :
        ReMatchAt(re.toks, s, i)

\* ------------------------------------------------------------------ dict
\* dict: the sequence of <<key, value>> pairs in insertion order.

DictKeys(d) == {d[i][1] : i \in DOMAIN d}

\* dict.__iter__: the keys in insertion order
DictIter(d) == [i \in DOMAIN d |-> d[i][1]]

DictHas(d, k) == k \in DictKeys(d)

DictIndex(d, k) == CHOOSE i \in DOMAIN d : d[i][1] = k

\* dict.__getitem__ (the caller checks DictHas)
DictGet(d, k) == d[DictIndex(d, k)][2]

\* dict.__setitem__: a present key keeps its place, a new key is appended.
DictSet(d, k, v) ==
    IF DictHas(d, k) THEN [d EXCEPT ![DictIndex(d, k)] = <<k, v>>]
    ELSE Append(d, <<k, v>>)

\* dict.pop(k, None): the dict without k
DictPop(d, k) == SelectSeq(d, LAMBDA p : p[1] # k)

\* dict.update(e) for a plain dict
RECURSIVE DictUpdate(_, _)
DictUpdate(d, e) ==
    IF e = <<>> THEN d
    ELSE DictUpdate(DictSet(d, Head(e)[1], Head(e)[2]), Tail(e))

\* The mapping a dict denotes, for comparing contents regardless of order.
DictMap(d) == [k \in DictKeys(d) |-> DictGet(d, k)]

\* ----------------------------------------------------------------- paths
\* pathlib.Path: whether it is absolute, and its components.

HomeDir == <<"home", "u">>

CwdDir == <<"work">>

\* Path(s): empty and "." components are dropped.
ParsePath(s) ==
    [abs |-> Len(s) > 0 /\ Char(s, 1) = "/",
     parts |-> SelectSeq(Split(s, "/"), LAMBDA x : x # "" /\ x # ".")]

\* Path.expanduser()
ExpandUser(p) ==
    IF ~p.abs /\ Len(p.parts) > 0 /\ p.parts[1] = "~"
    THEN [abs |-> TRUE, parts |-> HomeDir \o Tail(p.parts)]
    ELSE p

\* Path.absolute()
Absolute(p) ==
    IF p.abs THEN p ELSE [abs |-> TRUE, parts |-> CwdDir \o p.parts]

\* a / b
PathJoin(a, b) ==
    IF b.abs THEN b ELSE [abs |-> a.abs, parts |-> a.parts \o b.parts]

\* Path.parent
PathParent(p) ==
    [p EXCEPT !.parts = SubSeq(p.parts, 1, Len(p.parts) - 1)]

\* Path.with_name(name)
WithName(p, name) == PathJoin(PathParent(p), ParsePath(name))

\* Path.exists() on a file system fsys (a function from the components of
\* an absolute path to the document stored there): the operating system
\* resolves a relative path against the working directory.
PathExists(fsys, p) == Absolute(p).parts \in DOMAIN fsys

\* ---------------------------------------------------------------- values

StrV(s) == [t |-> "str", s |-> s]

IntV(n) == [t |-> "int", n |-> n]

NoneV == [t |-> "none"]

PathV(p) == [t |-> "path", p |-> p]

ListV(items) == [t |-> "list", items |-> items]

SetV(items) == [t |-> "set", items |-> items]

\* A tuple, an iterator or an array: kind names which.
IterableV(kind, items) == [t |-> kind, items |-> items]

DictV(d) == [t |-> "dict", d |-> d]

BoolV(b) == [t |-> "bool", b |-> b]

\* A float, held as its number of tenths (0.1 is FloatV(1)).
FloatV(tenths) == [t |-> "float", tenths |-> tenths]

\* Python truthiness of a value (if site:, if include:)
Truthy(v) ==
    CASE v.t = "none" -> FALSE
      [] v.t = "str"  -> v.s # ""
      [] v.t = "int"  -> v.n # 0
      [] v.t = "list" -> v.items # <<>>
      [] v.t = "dict" -> v.d # <<>>
      [] OTHER        -> TRUE

\* ------------------------------------------------------------ validators
\* A validator returns its value or raises: exc names the exception.

Ok(v) == [exc |-> "none", val |-> v]

Raise(exc, v) == [exc |-> exc, val |-> v]

\* A faulty variant that leaves a relative path relative.
validate_path_not_absolute(v) ==
    CASE v.t = "str"  -> Ok(PathV(ExpandUser(ParsePath(v.s))))
      [] v.t = "path" -> Ok(PathV(ExpandUser(v.p)))
      [] OTHER        -> Raise("ValueError", v)

\* validate_path: Path(value).expanduser().absolute()
validate_path(v) ==
    CASE v.t = "str"  -> Ok(PathV(Absolute(ExpandUser(ParsePath(v.s)))))
      [] v.t = "path" -> Ok(PathV(Absolute(ExpandUser(v.p))))
      [] OTHER        -> Raise("ValueError", v)

\* validate_string: str(value)
validate_string(v) ==
    CASE v.t = "str"  -> Ok(v)
      [] v.t = "int" /\ v.n \in 0..9 -> Ok(StrV(Char("0123456789", v.n + 1)))
      [] v.t = "none" -> Ok(StrV("None"))

\* A faulty variant that appends "/*" to every pattern.
DiagPatternAlways(p) == p \o "/*"

\* validate_diagnostics: a string is stripped and split at blanks; every
\* pattern without a "/" gets "/*" appended; the result is a set.
DiagPattern(p) == IF Contains(p, "/") THEN p ELSE p \o "/*"

validate_diagnostics(v) ==
    CASE v.t = "str" ->
            LET ps == Split(Strip(v.s), " ")
            IN  Ok(SetV({DiagPattern(ps[i]) : i \in DOMAIN ps}))
      [] v.t = "none" -> Ok(SetV({}))
      [] v.t = "set" -> Ok(SetV({DiagPattern(p) : p \in v.items}))
      [] v.t = "list" /\ \A i \in DOMAIN v.items : v.items[i].t = "str" ->
            Ok(SetV({DiagPattern(v.items[i].s) : i \in DOMAIN v.items}))
      [] OTHER -> Raise("TypeError", v)

\* The validator of a project key: the raw output_file/data structure read
\* from a document and a ProjectData both pass.
validate_project_data(v) ==
    IF v.t \in {"dict", "ProjectData"} THEN Ok(v) ELSE Raise("ValueError", v)

\* validate_path_or_none: None passes, anything else is validate_path's
validate_path_or_none(v) == IF v.t = "none" THEN Ok(v) ELSE validate_path(v)

\* str.lower()
RECURSIVE Lower(_)
Lower(s) ==
    LET upper == "ABCDEFGHIJKLMNOPQRSTUVWXYZ"
        lower == "abcdefghijklmnopqrstuvwxyz"
        at    == {i \in 1..Len(upper) : Len(s) > 0 /\ Char(upper, i) = Char(s, 1)}
    IN  IF s = "" THEN ""
        ELSE (IF at = {} THEN Char(s, 1) ELSE Char(lower, CHOOSE i \in at : TRUE))
             \o Lower(SubSeq(s, 2, Len(s)))

\* The named check levels.
CheckLevels == [debug |-> 1, info |-> 2, default |-> 3, warning |-> 4]

\* A faulty variant that compares the name as written.
validate_check_level_exact_case(v) ==
    CASE v.t = "int" -> IF v.n \in 1..5 THEN Ok(v) ELSE Raise("ValueError", v)
      [] v.t = "str" ->
            IF v.s \in DOMAIN CheckLevels
            THEN Ok(IntV(CheckLevels[v.s])) ELSE Raise("ValueError", v)

\* validate_check_level: an integer 1..5, or the name of a level in any
\* letter case
validate_check_level(v) ==
    CASE v.t = "int" -> IF v.n \in 1..5 THEN Ok(v) ELSE Raise("ValueError", v)
      [] v.t = "str" ->
            IF Lower(v.s) \in DOMAIN CheckLevels
            THEN Ok(IntV(CheckLevels[Lower(v.s)])) ELSE Raise("ValueError", v)

\* A faulty variant that answers every rejected input with ValueError.
validate_positive_value_error(v) ==
    CASE v.t = "int"   -> IF v.n > 0 THEN Ok(v) ELSE Raise("ValueError", v)
      [] v.t = "float" -> IF v.tenths > 0 THEN Ok(v) ELSE Raise("ValueError", v)
      [] OTHER         -> Raise("ValueError", v)

\* validate_positive: a number greater than zero; a value that cannot be
\* compared with zero is a TypeError
validate_positive(v) ==
    CASE v.t = "int"   -> IF v.n > 0 THEN Ok(v) ELSE Raise("ValueError", v)
      [] v.t = "float" -> IF v.tenths > 0 THEN Ok(v) ELSE Raise("ValueError", v)
      [] OTHER         -> Raise("TypeError", v)

\* A faulty variant that keeps the empty tokens of a string.
validate_string_list_keeps_empty(v) ==
    CASE v.t = "str" ->
            LET ts == Split(v.s, ",")
            IN  Ok(ListV([i \in DOMAIN ts |-> StrV(Strip(ts[i]))]))
      [] v.t \in {"list", "tuple", "iter", "array"} ->
            Ok(ListV([i \in DOMAIN v.items |-> validate_string(v.items[i]).val]))
      [] OTHER -> Raise("ValueError", v)

\* _listify_validator(validate_string): a string is split at commas, the
\* tokens stripped and the empty ones dropped; the elements of a list,
\* tuple, iterator or array are converted one by one; a set and a scalar
\* that is no string are rejected.
validate_string_list(v) ==
    CASE v.t = "str" ->
            LET ts == SelectSeq(Split(v.s, ","), LAMBDA t : Strip(t) # "")
            IN  Ok(ListV([i \in DOMAIN ts |-> StrV(Strip(ts[i]))]))
      [] v.t \in {"list", "tuple", "iter", "array"} ->
            Ok(ListV([i \in DOMAIN v.items |-> validate_string(v.items[i]).val]))
      [] OTHER -> Raise("ValueError", v)

ApplyValidator(name, v) ==
    CASE name = "path"         -> validate_path(v)
      [] name = "path_or_none" -> validate_path_or_none(v)
      [] name = "check_level"  -> validate_check_level(v)
      [] name = "positive"     -> validate_positive(v)
      [] name = "string"       -> validate_string(v)
      [] name = "string_list"  -> validate_string_list(v)
      [] name = "diagnostics"  -> validate_diagnostics(v)
      [] name = "project"      -> validate_project_data(v)

\* The ten well-known project keys, in the order of the module's loop.
ProjectKeys ==
    <<"CMIP6", "CMIP5", "CMIP3", "OBS", "OBS6", "native6", "obs4mips",
      "ana4mips", "EMAC", "CORDEX">>

ProjectKeySet == {ProjectKeys[i] : i \in DOMAIN ProjectKeys}

\* _validators: key -> validator
validators ==
    [k \in {"output_dir", "auxiliary_data_dir", "diagnostics"} \cup ProjectKeySet |->
        CASE k \in {"output_dir", "auxiliary_data_dir"} -> "path"
          [] k = "diagnostics" -> "diagnostics"
          [] OTHER -> "project"]

\* _drs_validators: key -> validator
drs_validators ==
    [k \in {"rootpath", "input_dir", "input_file"} |->
        IF k = "rootpath" THEN "path" ELSE "string"]

\* The class attribute validate of Config and of BaseDRS.
Registry(cls) == IF cls = "BaseDRS" THEN drs_validators ELSE validators

\* ------------------------------------------------------------ exceptions

NoErr == [type |-> "none", key |-> "", cause |-> ""]

Err(type, key, cause) == [type |-> type, key |-> key, cause |-> cause]

Failed(r) == r.err.type # "none"

\* ---------------------------------------------------------------- Config
\* A Config (or BaseDRS) object is the dict d it wraps; an operation that
\* can raise returns the dict it leaves behind and the exception.

\* Config.__setitem__, from the validator's outcome on: a ValueError and a
\* KeyError become InvalidConfigParameter, any other exception passes.
StoreValidated(d, key, r) ==
    CASE r.exc = "none" ->
            [d |-> DictSet(d, key, r.val), err |-> NoErr]
      [] r.exc = "ValueError" ->
            [d |-> d, err |-> Err("InvalidConfigParameter", key, "ValueError")]
      [] r.exc = "KeyError" ->
            [d |-> d, err |-> Err("InvalidConfigParameter", key, "KeyError")]
      [] OTHER ->
            [d |-> d, err |-> Err(r.exc, key, r.exc)]

\* Faulty variants of __setitem__: one ignores a key without a validator,
\* one stores the raw value of a key whose validator accepts it.
SetItemDropsUnknown(cls, d, key, val) ==
    IF key \notin DOMAIN Registry(cls)
    THEN [d |-> d, err |-> NoErr]
    ELSE StoreValidated(d, key, ApplyValidator(Registry(cls)[key], val))

StoreRaw(d, key, val, r) ==
    IF r.exc = "none" THEN [d |-> DictSet(d, key, val), err |-> NoErr]
    ELSE StoreValidated(d, key, r)

SetItemStoresRaw(cls, d, key, val) ==
    IF key \notin DOMAIN Registry(cls)
    THEN [d |-> d, err |-> Err("InvalidConfigParameter", key, "KeyError")]
    ELSE StoreRaw(d, key, val, ApplyValidator(Registry(cls)[key], val))

\* Config.__setitem__: self.validate[key] raises KeyError for a key the
\* registry does not hold.
SetItem(cls, d, key, val) ==
    IF key \notin DOMAIN Registry(cls)
    THEN [d |-> d, err |-> Err("InvalidConfigParameter", key, "KeyError")]
    ELSE StoreValidated(d, key, ApplyValidator(Registry(cls)[key], val))

\* Config.__getitem__
GetItem(d, key) ==
    IF DictHas(d, key) THEN [val |-> DictGet(d, key), err |-> NoErr]
    ELSE [val |-> NoneV, err |-> Err("KeyError", key, "")]

\* A faulty __iter__ that yields the keys in insertion order.
ConfigIterUnsorted(d) == DictIter(d)

\* Config.__iter__
ConfigIter(d) == Sorted(DictIter(d))

\* Config.__len__
ConfigLen(d) == Len(d)

\* Mapping.items(): the pairs in the order of __iter__
ItemsInOrder(d, ks) == [i \in 1..Len(ks) |-> <<ks[i], DictGet(d, ks[i])>>]

ConfigItems(d) == ItemsInOrder(d, ConfigIter(d))

\* MutableMapping.update with the pairs of the other mapping in its
\* iteration order: the first failing __setitem__ ends it.
RECURSIVE ConfigUpdate(_, _, _)
ConfigUpdateRest(cls, r, rest) ==
    IF Failed(r) THEN r ELSE ConfigUpdate(cls, r.d, rest)

ConfigUpdate(cls, d, items) ==
    IF items = <<>> THEN [d |-> d, err |-> NoErr]
    ELSE ConfigUpdateRest(cls, SetItem(cls, d, Head(items)[1], Head(items)[2]),
                          Tail(items))

\* Config.__init__
ConfigInit(cls, items) == ConfigUpdate(cls, <<>>, items)

\* MutableMapping.__delitem__ is the first __delitem__ in the method
\* resolution order of Config(MutableMapping, dict): it raises KeyError.
DelItem(d, key) == [d |-> d, err |-> Err("KeyError", "", "")]

\* A faulty variant of clear that leaves the mapping as it is.
ConfigClearKeeps(d) == d

\* Config.clear
ConfigClear(d) == <<>>

\* Config.copy: a plain dict, built in the order of __iter__
ConfigCopy(d) == ConfigItems(d)

\* A faulty find_all that matches the pattern at the start of the key only
\* (re.match for re.search).
FindAllFromStart(d, pattern) ==
    ConfigInit("Config",
               SelectSeq(ConfigItems(d),
                         LAMBDA p : ReMatchAt(ReCompile(pattern).toks, p[1], 1)))

\* Config.find_all
FindAll(d, pattern) ==
    ConfigInit("Config",
               SelectSeq(ConfigItems(d),
                         LAMBDA p : ReSearch(ReCompile(pattern), p[1])))

\* Config.select_group, from the subset find_all returned on
StripPrefix(items, n) ==
    [i \in DOMAIN items |->
        <<SubSeq(items[i][1], n + 1, Len(items[i][1])), items[i][2]>>]

GroupOf(subset, prefix) ==
    IF Failed(subset) THEN [d |-> <<>>, err |-> subset.err]
    ELSE [d |-> DictUpdate(<<>>, StripPrefix(ConfigItems(subset.d), Len(prefix))),
          err |-> NoErr]

\* Config.select_group
SelectGroup(d, group) ==
    GroupOf(FindAll(d, "^" \o group \o "."), group \o ".")

\* ------------------------------------------------------------ documents
\* What yaml.safe_load returns for the files of the model's file systems.

\* Path(__file__)
ThisFile == [abs |-> TRUE, parts |-> <<"pkg", "_config_object.py">>]

\* USER_CONFIG_DIR = Path.home() / '.esmvaltool'
USER_CONFIG_DIR == [abs |-> TRUE, parts |-> HomeDir \o <<".esmvaltool">>]

\* DEFAULT_CONFIG = Path(__file__).with_name('config-default.yml')
DEFAULT_CONFIG == WithName(ThisFile, "config-default.yml")

\* USER_CONFIG = USER_CONFIG_DIR / 'config-user.yml'
USER_CONFIG == PathJoin(USER_CONFIG_DIR, ParsePath("config-user.yml"))

RawDRS(root) ==
    DictV(<< <<"rootpath", StrV(root)>>,
             <<"input_dir", StrV("")>>,
             <<"input_file", StrV("{short_name}*.nc")>> >>)

RawProject(root) ==
    DictV(<< <<"output_file", StrV("{project}_{dataset}")>>,
             <<"data", ListV(<<RawDRS(root)>>)>> >>)

DefaultDoc ==
    << <<"output_dir", StrV("/tmp/default")>>,
       <<"auxiliary_data_dir", StrV("aux")>> >>
    \o [i \in DOMAIN ProjectKeys |->
           <<ProjectKeys[i], RawProject("~/data/" \o ProjectKeys[i])>>]

\* The files every file system of the model holds.
CommonFiles ==
    (<<"work", "user.yml">> :> << <<"output_dir", StrV("/tmp/user")>> >>)
    @@ (<<"work", "badkey.yml">> :>
           << <<"output_dir", StrV("/tmp/user")>>, <<"foo_bar", IntV(1)>> >>)
    @@ (<<"work", "badval.yml">> :>
           << <<"auxiliary_data_dir", StrV("aux2")>>, <<"output_dir", IntV(123)>> >>)
    @@ (<<"work", "incl.yml">> :>
           << <<"output_dir", StrV("/tmp/incl")>>, <<"include", StrV("base.yml")>> >>)
    @@ (<<"work", "base.yml">> :>
           << <<"output_dir", StrV("/tmp/base")>>,
              <<"diagnostics", StrV("a")>>,
              <<"include", StrV("deep.yml")>> >>)
    @@ (<<"pkg", "deep.yml">> :>
           << <<"output_dir", StrV("/tmp/deep")>>,
              <<"auxiliary_data_dir", StrV("/tmp/deepaux")>> >>)
    @@ (<<"work", "site.yml">> :>
           << <<"site", StrV("dkrz")>>,
              <<"include", StrV("base.yml")>>,
              <<"output_dir", StrV("/tmp/sitedoc")>> >>)
    @@ (<<"pkg", "config-dkrz.yml">> :>
           << <<"auxiliary_data_dir", StrV("/data/dkrz")>> >>)
    @@ (<<"home", "u", ".esmvaltool", "other.yml">> :>
           << <<"output_dir", StrV("~/other")>> >>)
    @@ (<<"work", "proj.yml">> :>
           << <<"CMIP6", RawProject("/data/user/CMIP6")>> >>)
    @@ (<<"work", "empty.yml">> :>
           << <<"CMIP6", DictV(<< <<"output_file", StrV("{project}_{dataset}")>>,
                                  <<"data", ListV(<<>>)>> >>)>> >>)

UserConfigFile ==
    USER_CONFIG.parts :> << <<"output_dir", StrV("~/out")>> >>

DefaultFile(doc) == DEFAULT_CONFIG.parts :> doc

\* The file systems a run can start from: the shipped default document
\* with and without a user configuration, a default document without the
\* EMAC entry, and one whose OBS entry has an empty data list.
FileSystems ==
    { DefaultFile(DefaultDoc) @@ UserConfigFile @@ CommonFiles,
      DefaultFile(DefaultDoc) @@ CommonFiles,
      DefaultFile(DictPop(DefaultDoc, "EMAC")) @@ CommonFiles,
      DefaultFile(DictSet(DefaultDoc, "OBS",
                      DictV(<< <<"output_file", StrV("{project}_{dataset}")>>,
                               <<"data", ListV(<<>>)>> >>)))
          @@ CommonFiles }

\* The file names callers pass to load_from_file.
FileNames ==
    {"user.yml", "badkey.yml", "badval.yml", "incl.yml", "site.yml",
     "other.yml", "proj.yml", "empty.yml", "nope.yml"}

\* ------------------------------------------------------------- the loader

\* The nesting depth of includes at which the interpreter's recursion
\* limit ends read_config_file.
MaxIncludeDepth == 4

ToPath(v) == IF v.t = "path" THEN v.p ELSE ParsePath(v.s)

\* dict.pop(k, None): the value returned
DictPopValue(d, k) == IF DictHas(d, k) THEN DictGet(d, k) ELSE NoneV

\* A faulty variant that lets an include the document declares stand.
ResolveSiteKeepsInclude(cfg, site) ==
    IF Truthy(site) /\ ~DictHas(cfg, "include")
    THEN DictSet(DictPop(cfg, "site"), "include",
                 PathV(WithName(ThisFile, "config-" \o site.s \o ".yml")))
    ELSE DictPop(cfg, "site")

\* site = cfg.pop('site', None); if site: cfg['include'] = ...
ResolveSite(cfg, site) ==
    IF Truthy(site)
    THEN DictSet(DictPop(cfg, "site"), "include",
                 PathV(WithName(ThisFile, "config-" \o site.s \o ".yml")))
    ELSE DictPop(cfg, "site")

\* A faulty variant that tries the package directory first.
TryPathsSecondFirst(fsys, include, first, second) ==
    IF PathExists(fsys, second) THEN second
    ELSE IF PathExists(fsys, first) THEN first
    ELSE include

\* for try_path in (...): if try_path.exists(): include = try_path; break
TryPaths(fsys, include, first, second) ==
    IF PathExists(fsys, first) THEN first
    ELSE IF PathExists(fsys, second) THEN second
    ELSE include

ResolveInclude(fsys, include) ==
    TryPaths(fsys, include, Absolute(ExpandUser(include)),
             PathJoin(PathParent(ThisFile), include))

\* cfg.update(include_cfg)
MergeInclude(cfg, include_cfg) ==
    IF Failed(include_cfg) THEN [cfg |-> <<>>, err |-> include_cfg.err]
    ELSE [cfg |-> DictUpdate(cfg, include_cfg.cfg), err |-> NoErr]

RECURSIVE read_config_file(_, _, _)
\* include = cfg.pop('include', None); if include: ...
ReadInclude(fsys, cfg, include, depth) ==
    IF ~Truthy(include) THEN [cfg |-> cfg, err |-> NoErr]
    ELSE MergeInclude(cfg,
             read_config_file(fsys, ResolveInclude(fsys, ToPath(include)),
                              depth + 1))

ReadSite(fsys, cfg, depth) ==
    ReadInclude(fsys, DictPop(cfg, "include"), DictPopValue(cfg, "include"), depth)

\* read_config_file(config_file)
read_config_file(fsys, config_file, depth) ==
    IF depth > MaxIncludeDepth
    THEN [cfg |-> <<>>, err |-> Err("RecursionError", "", "")]
    ELSE IF ~PathExists(fsys, config_file)
    THEN [cfg |-> <<>>, err |-> Err("IOError", "", "")]
    ELSE ReadSite(fsys,
                  ResolveSite(fsys[Absolute(config_file).parts],
                              DictPopValue(fsys[Absolute(config_file).parts], "site")),
                  depth)

\* ------------------------------------------------------------- ProjectData

\* ProjectData(name, output_file=..., data=...): a project needs at least
\* one data record.
NewProjectData(name, output_file, data) ==
    IF data = <<>>
    THEN [val |-> NoneV, err |-> Err("EmptyProjectDataError", name, "")]
    ELSE [val |-> [t |-> "ProjectData", name |-> name,
                   output_file |-> output_file, data |-> data],
          err |-> NoErr]

\* [BaseDRS(item) for item in data]
RECURSIVE BuildDRS(_)
PrependDRS(one, rest) ==
    IF Failed(rest) THEN rest
    ELSE [data |-> <<[t |-> "BaseDRS", d |-> one.d]>> \o rest.data, err |-> NoErr]

BuildDRSFrom(one, items) ==
    IF Failed(one) THEN [data |-> <<>>, err |-> one.err]
    ELSE PrependDRS(one, BuildDRS(items))

BuildDRS(items) ==
    IF items = <<>> THEN [data |-> <<>>, err |-> NoErr]
    ELSE BuildDRSFrom(ConfigInit("BaseDRS", Head(items).d), Tail(items))

\* config[key] = ProjectData(key, output_file=output_file, data=data)
StoreProject(d, key, pd) ==
    IF Failed(pd) THEN [d |-> d, err |-> pd.err]
    ELSE SetItem("Config", d, key, pd.val)

BuildProject(d, key, output_file, data) ==
    IF Failed(data) THEN [d |-> d, err |-> data.err]
    ELSE StoreProject(d, key, NewProjectData(key, output_file, data.data))

\* One pass of the module's project loop, from config[key] on.
ProjectOf(d, key, entry) ==
    IF Failed(entry) THEN [d |-> d, err |-> entry.err]
    ELSE IF entry.val.t # "dict"
    THEN [d |-> d, err |-> Err("TypeError", key, "TypeError")]
    ELSE IF ~DictHas(entry.val.d, "output_file")
    THEN [d |-> d, err |-> Err("KeyError", "output_file", "")]
    ELSE IF ~DictHas(entry.val.d, "data")
    THEN [d |-> d, err |-> Err("KeyError", "data", "")]
    ELSE BuildProject(d, key, DictGet(entry.val.d, "output_file"),
                      BuildDRS(DictGet(entry.val.d, "data").items))

\* One pass of the module's project loop for key, on the content d of
\* config.
ProjectStep(d, key) == ProjectOf(d, key, GetItem(d, key))

\* for key in ('CMIP6', ..., 'CORDEX'): ...
RECURSIVE ProjectLoop(_, _)
ProjectLoopRest(r, i) == IF Failed(r) THEN r ELSE ProjectLoop(r.d, i)

ProjectLoop(d, i) ==
    IF i > Len(ProjectKeys) THEN [d |-> d, err |-> NoErr]
    ELSE ProjectLoopRest(ProjectStep(d, ProjectKeys[i]), i + 1)

\* ------------------------------------------------------------------ state

VARIABLES
    fs,              \* the file system: path components -> document
    heap,            \* object identity -> content of the Config object
    config_default,  \* the module globals: the identity each is bound to
    config,
    config_orig,
    drs_config,      \* 0 while the name is not bound
    pc,              \* how far the module's import has come
    held,            \* the mapping a caller got from a call and kept
    last,            \* the last call made and what it returned or raised
    stack            \* the frames of a read_config_file call in progress

vars ==
    <<fs, heap, config_default, config, config_orig, drs_config, pc, held, last,
      stack>>

\* Object identities; an object no name refers to is reclaimed and its
\* identity reused.
Ids == 1..6

Fresh(used) ==
    CHOOSE i \in Ids : i \notin used /\ \A j \in Ids : j < i => j \in used

Call(op, arg, val, err, ret) ==
    [op |-> op, arg |-> arg, val |-> val, err |-> err, ret |-> ret]

\* A reference to a returned mapping: its identity and its class (a Config
\* or a plain dict); identity 0 while the caller holds none.
NoHeld == [id |-> 0, cls |-> "none", of |-> "none"]

\* A faulty variant in which the load has cleared config before it raises.
ClearedFirst(err) ==
    [heap |-> [heap EXCEPT ![config] = <<>>],
     config |-> config, config_orig |-> config_orig, err |-> err]

\* What a load that raised before touching any object leaves.
Untouched(err) ==
    [heap |-> heap, config |-> config, config_orig |-> config_orig, err |-> err]

\* What a load leaves when an update of config raised: config holds what
\* was stored until then.
Interrupted(r) ==
    [heap |-> [heap EXCEPT ![config] = r.d],
     config |-> config, config_orig |-> config_orig, err |-> r.err]

\* config_default.update(mapping)
DefaultStore(upd) ==
    [heap |-> [heap EXCEPT ![config_default] = upd.d], err |-> upd.err]

DefaultFrom(mapping) ==
    IF Failed(mapping) THEN [heap |-> heap, err |-> mapping.err]
    ELSE DefaultStore(ConfigUpdate("Config", heap[config_default], mapping.cfg))

\* _load_default_config(filename)
load_default_config(filename) == DefaultFrom(read_config_file(fs, filename, 0))

\* A faulty ending of _load_user_config that binds config to a new object
\* and leaves the old one as it was.
RebindTo(other, d, snapshot, new) ==
    [heap |-> [heap EXCEPT ![other] = d,
                           ![config_orig] = <<>>,
                           ![new] = snapshot.d],
     config |-> other, config_orig |-> new, err |-> NoErr]

BindSnapshotRebinds(d, snapshot, new) ==
    IF Failed(snapshot)
    THEN [heap |-> [heap EXCEPT ![config] = d],
          config |-> config, config_orig |-> config_orig, err |-> snapshot.err]
    ELSE RebindTo(Fresh({config_default, config, config_orig, drs_config, held.id, new}),
                  d, snapshot, new)

\* A faulty ending of _load_user_config that binds config_orig to the live
\* object itself.
BindSnapshotAliases(d, snapshot, new) ==
    IF Failed(snapshot)
    THEN [heap |-> [heap EXCEPT ![config] = d],
          config |-> config, config_orig |-> config_orig, err |-> snapshot.err]
    ELSE [heap |-> [heap EXCEPT ![config] = d, ![config_orig] = <<>>],
          config |-> config, config_orig |-> config, err |-> NoErr]

\* config_orig = Config(config.copy()): the name is bound to a new object,
\* config keeps its own.
BindSnapshot(d, snapshot, new) ==
    IF Failed(snapshot)
    THEN [heap |-> [heap EXCEPT ![config] = d],
          config |-> config, config_orig |-> config_orig, err |-> snapshot.err]
    ELSE [heap |-> [heap EXCEPT ![config] = d,
                                ![config_orig] = <<>>,
                                ![new] = snapshot.d],
          config |-> config, config_orig |-> new, err |-> NoErr]

TakeSnapshot(merged) ==
    IF Failed(merged) THEN Interrupted(merged)
    ELSE BindSnapshot(merged.d, ConfigInit("Config", ConfigCopy(merged.d)),
                      Fresh({config_default, config, config_orig, drs_config, held.id}))

\* A faulty variant that writes the merged mapping to config_default too.
MergeUserIntoDefault(defaults, mapping) ==
    IF Failed(defaults) THEN Interrupted(defaults)
    ELSE LET r == TakeSnapshot(ConfigUpdate("Config", defaults.d, mapping))
         IN  [r EXCEPT !.heap = [r.heap EXCEPT ![config_default] = r.heap[config]]]

\* config.update(mapping)
MergeUser(defaults, mapping) ==
    IF Failed(defaults) THEN Interrupted(defaults)
    ELSE TakeSnapshot(ConfigUpdate("Config", defaults.d, mapping))

\* config.clear(); config.update(config_default)
ResetToDefault(mapping) ==
    MergeUser(ConfigUpdate("Config", ConfigClear(heap[config]),
                           ConfigItems(heap[config_default])),
              mapping)

\* try: mapping = read_config_file(filename)
\* except IOError: if raise_exception: raise; mapping = {}
UserFrom(read, raise_exception) ==
    IF Failed(read) /\ (read.err.type # "IOError" \/ raise_exception)
    THEN Untouched(read.err)
    ELSE ResetToDefault(IF Failed(read) THEN <<>> ELSE read.cfg)

\* def _load_user_config(filename, raise_exception=True): the value the
\* flag takes when the caller passes none.
raise_exception_default == TRUE

\* _load_user_config(filename, raise_exception)
load_user_config(filename, raise_exception) ==
    UserFrom(read_config_file(fs, filename, 0), raise_exception)

\* Config.load_from_file(filename)
FindUserFile(filename, path, try_path) ==
    IF PathExists(fs, path) THEN load_user_config(path, raise_exception_default)
    ELSE IF PathExists(fs, try_path)
    THEN load_user_config(try_path, raise_exception_default)
    ELSE Untouched(Err("FileNotFoundError", filename, ""))

load_from_file(filename) ==
    FindUserFile(filename, ExpandUser(ParsePath(filename)),
                 PathJoin(USER_CONFIG_DIR, ParsePath(filename)))

Init ==
    /\ fs \in FileSystems
    /\ heap = [i \in Ids |-> <<>>]
    /\ config_default = 1
    /\ config = 2
    /\ config_orig = 3
    /\ drs_config = 0
    /\ pc = "start"
    /\ held = NoHeld
    /\ last = Call("none", "", NoneV, NoErr, NoneV)
    /\ stack = <<>>

\* What a call leaves in the state: a load, a write to the live
\* configuration, a call that only returns.
Loaded(op, arg, val, r) ==
    /\ heap' = r.heap
    /\ config' = r.config
    /\ config_orig' = r.config_orig
    /\ last' = Call(op, arg, val, r.err, NoneV)

Wrote(op, arg, val, r) ==
    /\ heap' = [heap EXCEPT ![config] = r.d]
    /\ last' = Call(op, arg, val, r.err, NoneV)

Returned(op, arg, val, err, ret) ==
    /\ last' = Call(op, arg, val, err, ret)
    /\ UNCHANGED heap

\* --------------------------------------------------- the module's import

ImportStep(r, next) == pc' = IF Failed(r) THEN "failed" ELSE next

\* _load_default_config(DEFAULT_CONFIG)
DefaultLoaded(r) ==
    /\ heap' = r.heap
    /\ ImportStep(r, "default_loaded")
    /\ last' = Call("_load_default_config", "", NoneV, r.err, NoneV)

ImportLoadDefault ==
    /\ pc = "start"
    /\ DefaultLoaded(load_default_config(DEFAULT_CONFIG))
    /\ UNCHANGED <<stack, fs, held, config_default, config, config_orig, drs_config>>

\* _load_user_config(USER_CONFIG, raise_exception=False)
UserLoaded(r) ==
    /\ Loaded("_load_user_config", "", BoolV(FALSE), r)
    /\ ImportStep(r, "user_loaded")

ImportLoadUser ==
    /\ pc = "default_loaded"
    /\ UserLoaded(load_user_config(USER_CONFIG, FALSE))
    /\ UNCHANGED <<stack, fs, held, config_default, drs_config>>

\* the project loop, then drs_config = config
ProjectsDone(r) ==
    /\ Wrote("projects", "", NoneV, r)
    /\ ImportStep(r, "ready")
    /\ drs_config' = IF Failed(r) THEN drs_config ELSE config

ImportProjects ==
    /\ pc = "user_loaded"
    /\ ProjectsDone(ProjectLoop(heap[config], 1))
    /\ UNCHANGED <<stack, fs, held, config_default, config, config_orig>>

\* ------------------------------------------------- calls after the import
\* The inputs callers pass.

UpdateMaps ==
    { << <<"output_dir", StrV("/tmp/upd")>>,
         <<"foo_bar", IntV(1)>>,
         <<"diagnostics", StrV("/")>> >>,
      << <<"diagnostics", StrV("/")>>,
         <<"auxiliary_data_dir", StrV("~/aux")>> >>,
      << <<"output_dir", IntV(123)>> >> }

GetKeys == {"output_dir", "diagnostics", "CMIP6", "foo_bar"}


\* Config.load_from_file(filename)
LoadFromFile(filename) ==
    /\ pc = "ready"
    /\ Loaded("load_from_file", filename, NoneV, load_from_file(filename))
    /\ UNCHANGED <<stack, fs, held, config_default, drs_config, pc>>

\* _load_user_config(filename, raise_exception)
LoadUserConfig(filename, raise_exception) ==
    /\ pc = "ready"
    /\ Loaded("_load_user_config", filename, BoolV(raise_exception),
              load_user_config(ParsePath(filename), raise_exception))
    /\ UNCHANGED <<stack, fs, held, config_default, drs_config, pc>>

\* _load_user_config(filename): the caller passes no flag
LoadUserConfigDefault(filename) ==
    /\ pc = "ready"
    /\ Loaded("_load_user_config", filename, NoneV,
              load_user_config(ParsePath(filename), raise_exception_default))
    /\ UNCHANGED <<stack, fs, held, config_default, drs_config, pc>>

\* config[key] = val
Set(key, val) ==
    /\ pc = "ready"
    /\ Wrote("set", key, val, SetItem("Config", heap[config], key, val))
    /\ UNCHANGED <<stack, fs, held, config_default, config, config_orig, drs_config, pc>>

\* config.update(mapping)
Update(mapping) ==
    /\ pc = "ready"
    /\ Wrote("update", "", DictV(mapping),
             ConfigUpdate("Config", heap[config], mapping))
    /\ UNCHANGED <<stack, fs, held, config_default, config, config_orig, drs_config, pc>>

\* del config[key]
Delete(key) ==
    /\ pc = "ready"
    /\ Wrote("del", key, NoneV, DelItem(heap[config], key))
    /\ UNCHANGED <<stack, fs, held, config_default, config, config_orig, drs_config, pc>>

\* config.clear()
Clear ==
    /\ pc = "ready"
    /\ Wrote("clear", "", NoneV, [d |-> ConfigClear(heap[config]), err |-> NoErr])
    /\ UNCHANGED <<stack, fs, held, config_default, config, config_orig, drs_config, pc>>

\* config[key]
GetReturned(key, r) == Returned("get", key, NoneV, r.err, r.val)

Get(key) ==
    /\ pc = "ready"
    /\ GetReturned(key, GetItem(heap[config], key))
    /\ UNCHANGED <<stack, fs, held, config_default, config, config_orig, drs_config, pc>>

\* list(config), len(config)
Iterate ==
    /\ pc = "ready"
    /\ Returned("iter", "", NoneV, NoErr,
                [t |-> "keys", items |-> ConfigIter(heap[config]),
                 n |-> ConfigLen(heap[config])])
    /\ UNCHANGED <<stack, fs, held, config_default, config, config_orig, drs_config, pc>>

MappingReturned(op, arg, val, r) == Returned(op, arg, val, r.err, DictV(r.d))

\* config.select_group(group)
SelectGroupCall(group) ==
    /\ pc = "ready"
    /\ MappingReturned("select_group", group, NoneV, SelectGroup(heap[config], group))
    /\ UNCHANGED <<stack, fs, held, config_default, config, config_orig, drs_config, pc>>

\* config.find_all(pattern)
FindAllCall(pattern) ==
    /\ pc = "ready"
    /\ MappingReturned("find_all", pattern, NoneV, FindAll(heap[config], pattern))
    /\ UNCHANGED <<stack, fs, held, config_default, config, config_orig, drs_config, pc>>

\* config.copy()
CopyCall ==
    /\ pc = "ready"
    /\ Returned("copy", "", NoneV, NoErr, DictV(ConfigCopy(heap[config])))
    /\ UNCHANGED <<stack, fs, held, config_default, config, config_orig, drs_config, pc>>

\* Config(mapping)
Construct(mapping) ==
    /\ pc = "ready"
    /\ MappingReturned("Config", "", DictV(mapping), ConfigInit("Config", mapping))
    /\ UNCHANGED <<stack, fs, held, config_default, config, config_orig, drs_config, pc>>

Import == ImportLoadDefault \/ ImportLoadUser \/ ImportProjects

\* The loader: the import, reloads, and writes to the live configuration
\* between them.
LoaderWrites ==
    { <<"output_dir", StrV("rel/out")>>, <<"diagnostics", StrV("a b")>> }

Next ==
    \/ Import
    \/ \E f \in FileNames : LoadFromFile(f)
    \/ \E f \in {"user.yml", "nope.yml"}, b \in BOOLEAN : LoadUserConfig(f, b)
    \/ \E f \in {"user.yml", "nope.yml"} : LoadUserConfigDefault(f)
    \/ \E w \in LoaderWrites : Set(w[1], w[2])
    \/ Clear

Spec == Init /\ [][Next]_vars

\* The mapping: every call on the live configuration, without reloads.
InitMapping ==
    /\ Init
    /\ PathExists(fs, USER_CONFIG)
    /\ DictHas(fs[DEFAULT_CONFIG.parts], "EMAC")

NextMapping ==
    \/ Import
    \/ \E k \in {"output_dir", "diagnostics", "foo_bar", "CMIP6"},
         v \in {StrV("rel/out"), StrV("a b"), IntV(1)} : Set(k, v)
    \/ \E m \in UpdateMaps : Update(m)
    \/ \E k \in GetKeys : Delete(k)
    \/ Clear
    \/ \E k \in GetKeys : Get(k)
    \/ Iterate
    \/ \E g \in {"CMIP", "CMIP6", "OBS"} : SelectGroupCall(g)
    \/ \E p \in {"CMIP[56]", "output_dir", "^OBS", "dir"} : FindAllCall(p)
    \/ CopyCall
    \/ \E m \in UpdateMaps : Construct(m)

SpecMapping == InitMapping /\ [][NextMapping]_vars

\* ---------------------------------------------- read_config_file by itself
\* Documents drawn from bounded sets: a.yml and b.yml in the working
\* directory, c.yml beside the module; each defines any of two keys, with
\* values that tell the files apart, and may include a later file.

GenKeys == <<"output_dir", "diagnostics">>

GenDoc(tag, keys, include) ==
    LET ks == SelectSeq(GenKeys, LAMBDA k : k \in keys)
    IN  [i \in DOMAIN ks |-> <<ks[i], StrV("/" \o tag \o "/" \o ks[i])>>]
        \o (IF include = "" THEN <<>> ELSE << <<"include", StrV(include)>> >>)

\* The documents read_config_file is called on: a.yml and b.yml in the
\* working directory with or without an include (of each other, of
\* themselves, of c.yml, of a missing file) and a site, c.yml in the package
\* directory and, in half of the file systems, in the working directory as
\* well, and the site file config-dkrz.yml.
ReadFileSystems ==
    { LET files ==
              (<<"work", "a.yml">> :> GenDoc("a", ka, ia) \o sa)
              @@ (<<"work", "b.yml">> :> GenDoc("b", kb, ib) \o sb)
              @@ (<<"pkg", "c.yml">> :> GenDoc("c", kc, ""))
              @@ (<<"pkg", "config-dkrz.yml">> :> GenDoc("dkrz", {"output_dir"}, ""))
      IN  IF wc
          THEN files @@ (<<"work", "c.yml">> :>
                            GenDoc("w", {"output_dir", "diagnostics"}, ""))
          ELSE files :
        ka \in SUBSET {"output_dir", "diagnostics"},
        kb \in {{}, {"output_dir"}},
        kc \in {{"diagnostics"}, {"output_dir", "diagnostics"}},
        ia \in {"", "b.yml", "c.yml", "missing.yml", "a.yml"},
        ib \in {"", "c.yml", "a.yml"},
        sa \in {<<>>, << <<"site", StrV("dkrz")>> >>, << <<"site", StrV("")>> >>},
        sb \in {<<>>, << <<"site", StrV("dkrz")>> >>},
        wc \in BOOLEAN }

ReadNames == {"a.yml", "b.yml", "/pkg/c.yml", "missing.yml"}

InitRead ==
    /\ fs \in ReadFileSystems
    /\ heap = [i \in Ids |-> <<>>]
    /\ config_default = 1
    /\ config = 2
    /\ config_orig = 3
    /\ drs_config = 0
    /\ pc = "start"
    /\ held = NoHeld
    /\ last = Call("none", "", NoneV, NoErr, NoneV)
    /\ stack = <<>>

\* read_config_file(name); a call that raises returns nothing
ReadConfigFile(name) ==
    /\ last' = Call("read_config_file", name, NoneV,
                    read_config_file(fs, ParsePath(name), 0).err,
                    IF Failed(read_config_file(fs, ParsePath(name), 0))
                    THEN NoneV
                    ELSE DictV(read_config_file(fs, ParsePath(name), 0).cfg))
    /\ UNCHANGED <<stack, fs, held, heap, config_default, config, config_orig, drs_config, pc>>

SpecRead == InitRead /\ [][\E name \in ReadNames : ReadConfigFile(name)]_vars

\* ------------------------------------- read_config_file, call by call
\* The same calls one frame at a time. A frame is one call of
\* read_config_file: entered, waiting for the call it made for its include,
\* or about to return its mapping.

\* A faulty variant: an interpreter without a recursion limit.
NoRecursionLimit(frames) == FALSE

\* The call that nests deeper than the interpreter's limit raises
\* RecursionError.
RecursionLimitExceeded(frames) == Len(frames) - 1 > MaxIncludeDepth

\* read_config_file(name), called from outside
ReadCall(name) ==
    /\ stack = <<>>
    /\ stack' = << [config_file |-> ParsePath(name), cfg |-> <<>>,
                    at |-> "entered"] >>
    /\ last' = Call("read_config_file", name, NoneV, NoErr, NoneV)
    /\ UNCHANGED <<fs, held, heap, config_default, config, config_orig, drs_config, pc>>

\* The body of the innermost call up to the call for its include or to its
\* return statement. No frame handles an exception, so a raise ends every
\* call on the stack.
ReadBody ==
    /\ stack # <<>>
    /\ stack[Len(stack)].at = "entered"
    /\ LET top == stack[Len(stack)]
           doc == fs[Absolute(top.config_file).parts]
           cfg == ResolveSite(doc, DictPopValue(doc, "site"))
           include == DictPopValue(cfg, "include")
           Goes(at) == [stack EXCEPT ![Len(stack)] =
                           [top EXCEPT !.cfg = DictPop(cfg, "include"),
                                       !.at = at]]
       IN  IF RecursionLimitExceeded(stack)
           THEN /\ stack' = <<>>
                /\ last' = [last EXCEPT !.err = Err("RecursionError", "", "")]
           ELSE IF ~PathExists(fs, top.config_file)
           THEN /\ stack' = <<>>
                /\ last' = [last EXCEPT !.err = Err("IOError", "", "")]
           ELSE IF Truthy(include)
           THEN /\ stack' = Append(Goes("waiting"),
                                   [config_file |->
                                        ResolveInclude(fs, ToPath(include)),
                                    cfg |-> <<>>, at |-> "entered"])
                /\ UNCHANGED last
           ELSE /\ stack' = Goes("return")
                /\ UNCHANGED last
    /\ UNCHANGED <<fs, held, heap, config_default, config, config_orig, drs_config, pc>>

\* return cfg: to the caller outside, or to the waiting call, which does
\* cfg.update(include_cfg) and returns in its turn.
ReadReturn ==
    /\ stack # <<>>
    /\ stack[Len(stack)].at = "return"
    /\ IF Len(stack) = 1
       THEN /\ stack' = <<>>
            /\ last' = [last EXCEPT !.ret = DictV(stack[1].cfg)]
       ELSE /\ stack' = Append(SubSeq(stack, 1, Len(stack) - 2),
                               [stack[Len(stack) - 1] EXCEPT
                                   !.cfg = DictUpdate(@, stack[Len(stack)].cfg),
                                   !.at = "return"])
            /\ UNCHANGED last
    /\ UNCHANGED <<fs, held, heap, config_default, config, config_orig, drs_config, pc>>

\* The file systems are those in which the documents differ in their
\* include and site only and c.yml is in the package directory alone.
InitReadSteps ==
    /\ InitRead
    /\ DictHas(fs[<<"work", "a.yml">>], "output_dir")
    /\ DictHas(fs[<<"work", "a.yml">>], "diagnostics")
    /\ DictHas(fs[<<"work", "b.yml">>], "output_dir")
    /\ DictHas(fs[<<"pkg", "c.yml">>], "output_dir")
    /\ <<"work", "c.yml">> \notin DOMAIN fs

SpecReadSteps ==
    InitReadSteps
    /\ [][(\E name \in ReadNames : ReadCall(name)) \/ ReadBody \/ ReadReturn]_vars

\* A call in progress goes on: the interpreter runs the innermost frame.
FairReadSteps == SpecReadSteps /\ WF_vars(ReadBody \/ ReadReturn)

\* ------------------------------------------- mappings a caller keeps
\* A call that returns a mapping creates a new object; the caller keeps a
\* reference to it (held), writes to it, and writes to the source.

\* Faulty variants that return the source object itself.
NewConfigSameObject(self) == self

NewDictSameObject(self) == self

\* Config(...) in find_all: a new Config object. The mapping the caller
\* held before is dropped, so its identity is free again.
NewConfig(self) == Fresh({config_default, config, config_orig, drs_config})

\* dict(...) in select_group, {...} in copy: a new dict object.
NewDict(self) == Fresh({config_default, config, config_orig, drs_config})

Kept(op, arg, r, id, cls) ==
    IF Failed(r)
    THEN /\ last' = Call(op, arg, NoneV, r.err, NoneV)
         /\ UNCHANGED <<heap, held>>
    ELSE /\ heap' = [heap EXCEPT ![id] = r.d]
         /\ held' = [id |-> id, cls |-> cls, of |-> op]
         /\ last' = Call(op, arg, NoneV, NoErr, DictV(r.d))

\* kept = config.find_all(pattern)
KeepFindAll(pattern) ==
    /\ pc = "ready"
    /\ Kept("find_all", pattern, FindAll(heap[config], pattern),
            NewConfig(config), "Config")
    /\ UNCHANGED <<stack, fs, config_default, config, config_orig, drs_config, pc>>

\* kept = config.select_group(group)
KeepSelectGroup(group) ==
    /\ pc = "ready"
    /\ Kept("select_group", group, SelectGroup(heap[config], group),
            NewDict(config), "dict")
    /\ UNCHANGED <<stack, fs, config_default, config, config_orig, drs_config, pc>>

\* kept = config.copy()
KeepCopy ==
    /\ pc = "ready"
    /\ Kept("copy", "", [d |-> ConfigCopy(heap[config]), err |-> NoErr],
            NewDict(config), "dict")
    /\ UNCHANGED <<stack, fs, config_default, config, config_orig, drs_config, pc>>

\* kept[key] = val: Config.__setitem__ validates when the kept mapping is
\* a Config; a plain dict stores the value as given.
HeldSet(key, val) ==
    /\ held.id # 0
    /\ LET r == IF held.cls = "Config"
                THEN SetItem("Config", heap[held.id], key, val)
                ELSE [d |-> DictSet(heap[held.id], key, val), err |-> NoErr]
       IN  /\ heap' = [heap EXCEPT ![held.id] = r.d]
           /\ last' = Call("kept.set", key, val, r.err, NoneV)
    /\ UNCHANGED <<stack, fs, held, config_default, config, config_orig, drs_config, pc>>

\* del kept[key]: MutableMapping.__delitem__ for a Config, dict.__delitem__
\* for a plain dict.
HeldDel(key) ==
    /\ held.id # 0
    /\ LET r == IF held.cls = "Config" THEN DelItem(heap[held.id], key)
                ELSE IF DictHas(heap[held.id], key)
                THEN [d |-> DictPop(heap[held.id], key), err |-> NoErr]
                ELSE [d |-> heap[held.id], err |-> Err("KeyError", key, "")]
       IN  /\ heap' = [heap EXCEPT ![held.id] = r.d]
           /\ last' = Call("kept.del", key, NoneV, r.err, NoneV)
    /\ UNCHANGED <<stack, fs, held, config_default, config, config_orig, drs_config, pc>>

\* The import, calls that return a mapping, writes to the mapping kept and
\* writes to the live configuration.
NextProjection ==
    \/ Import
    \/ \E p \in {"dir", "CMIP[56]"} : KeepFindAll(p)
    \/ \E g \in {"CMIP", "OBS"} : KeepSelectGroup(g)
    \/ KeepCopy
    \/ \E w \in { <<"output_dir", StrV("rel/kept")>>,
                   <<"output_file", StrV("kept")>> } : HeldSet(w[1], w[2])
    \/ \E k \in {"output_dir", "CMIP6"} : HeldDel(k)
    \/ \E w \in LoaderWrites : Set(w[1], w[2])
    \/ Clear

SpecProjection == InitMapping /\ [][NextProjection]_vars

\* ---------------------------------------------------------------- BaseDRS
\* The raw mappings callers construct a BaseDRS from: each key given or
\* left out, rootpath absolute, under the home directory or not a path.
DRSMaps ==
    { a \o b \o c \o e :
        a \in { <<>>, << <<"rootpath", StrV("/data")>> >>,
                << <<"rootpath", StrV("~/data")>> >>,
                << <<"rootpath", IntV(1)>> >> },
        b \in { <<>>, << <<"input_dir", StrV("")>> >>,
                << <<"input_dir", StrV("{dataset}")>> >> },
        c \in { <<>>, << <<"input_file", StrV("{short_name}*.nc")>> >> },
        e \in { <<>>, << <<"foo_bar", IntV(1)>> >> } }

\* record = BaseDRS(mapping): Config.__init__ is self.update(*args); when
\* it raises, the caller gets no object.
ConstructDRS(mapping) ==
    /\ pc = "ready"
    /\ LET r  == ConfigInit("BaseDRS", mapping)
           id == NewConfig(config)
       IN  IF Failed(r)
           THEN /\ last' = Call("BaseDRS", "", DictV(mapping), r.err, NoneV)
                /\ UNCHANGED <<heap, held>>
           ELSE /\ heap' = [heap EXCEPT ![id] = r.d]
                /\ held' = [id |-> id, cls |-> "BaseDRS", of |-> "BaseDRS"]
                /\ last' = Call("BaseDRS", "", DictV(mapping), NoErr, DictV(r.d))
    /\ UNCHANGED <<stack, fs, config_default, config, config_orig, drs_config, pc>>

\* record.rootpath: return self['rootpath']
Rootpath ==
    /\ held.cls = "BaseDRS"
    /\ Returned("rootpath", "", NoneV,
                GetItem(heap[held.id], "rootpath").err,
                GetItem(heap[held.id], "rootpath").val)
    /\ UNCHANGED <<stack, fs, held, config_default, config, config_orig, drs_config, pc>>

SpecDRS ==
    InitMapping /\ [][Import \/ (\E m \in DRSMaps : ConstructDRS(m)) \/ Rootpath]_vars

\* ------------------------------------------------------ validator calls
\* The inputs the validators are called with: integers and tenths around
\* zero and around the range of levels, level names in several letter
\* cases and other words, relative, absolute and home paths, and values
\* that are no paths.
ValidatorInputs(name) ==
    CASE name = "check_level" ->
            {IntV(n) : n \in -2..8}
            \cup {StrV(w) : w \in {"debug", "DEBUG", "dEBUG", "Debug", "info",
                                   "INFO", "iNfO", "default", "DEFAULT", "Default",
                                   "warning", "WARNING", "Warning", "fail",
                                   "debugging", "de", "5", ""}}
      [] name = "positive" ->
            {IntV(n) : n \in -3..5} \cup {FloatV(x) : x \in -15..25}
            \cup {StrV("fail"), StrV("1"), ListV(<<>>), DictV(<<>>)}
      [] name = "string_list" ->
            {StrV(w) : w \in {"", "a,b", "abc", "abc, ", "abc, ,", " a , b ",
                              "a,a", "b,a", ",a", "a,b,a", ",", " "}}
            \cup {IterableV(kind, items) :
                     kind \in {"list", "tuple", "iter", "array"},
                     items \in { <<>>, <<StrV("a"), StrV("b")>>,
                                 <<StrV("b"), StrV("a")>>,
                                 <<StrV("a"), StrV("a")>>,
                                 <<StrV("a"), StrV("b"), StrV("a")>>,
                                 <<IntV(1), IntV(2)>>, <<IntV(2), IntV(2)>> }}
            \cup {SetV({}), SetV({"a", "b"}), IntV(1), FloatV(15), BoolV(TRUE)}
      [] name \in {"path", "path_or_none"} ->
            {StrV(pre \o rest) :
                pre \in {"", "/", "~/"},
                rest \in {"a", "a/b", "a/b/c", "a/b/c/", "out dir"}}
            \cup {StrV("~/"), StrV("/"), StrV("~")}
            \cup {NoneV, IntV(123), IntV(0), BoolV(FALSE), BoolV(TRUE),
                  ListV(<<>>), ListV(<<StrV("a")>>), FloatV(15)}
      [] name = "diagnostics" ->
            {StrV(w) : w \in {"a", "a b", " a/b c ", "a/*", "b/c a", ""}}
            \cup {NoneV, SetV({}), SetV({"a", "b/c"}), SetV({"a/*"}),
                  ListV(<<StrV("a"), StrV("a/x")>>), ListV(<<>>),
                  IntV(1), FloatV(15)}
      [] name = "project" ->
            {DictV(<< <<"output_file", StrV("{project}_{dataset}")>>,
                      <<"data", ListV(items)>> >>) :
                items \in {<<>>, <<DictV(<< <<"rootpath", StrV("/data")>> >>)>>}}
            \cup {NewProjectData("CMIP6", StrV("{project}_{dataset}"),
                                 <<[t |-> "BaseDRS", d |-> d]>>).val :
                     d \in {<<>>, << <<"rootpath", validate_path(StrV("/data")).val>> >>}}
            \cup {StrV("CMIP6"), IntV(1), NoneV}
      [] name = "string" ->
            {StrV(w) : w \in {"", "a", "{dataset}", "None", "1"}}
            \cup {IntV(n) : n \in 0..9} \cup {NoneV}

\* validator(arg), as test_validator_valid and test_validator_invalid call
\* it: the result or the exception raised
Validate(name, v) ==
    /\ Returned("validate", name, v,
                IF ApplyValidator(name, v).exc = "none" THEN NoErr
                ELSE Err(ApplyValidator(name, v).exc, "", ""),
                IF ApplyValidator(name, v).exc = "none"
                THEN ApplyValidator(name, v).val ELSE NoneV)
    /\ UNCHANGED <<stack, fs, held, config_default, config, config_orig, drs_config, pc>>

SpecValidators ==
    InitMapping
    /\ [][\E name \in {"check_level", "positive", "path", "path_or_none",
                        "string_list", "diagnostics", "project", "string"} :
             \E v \in ValidatorInputs(name) : Validate(name, v)]_vars

\* ================================================================ claims

IsLoad(l) == l.op \in {"load_from_file", "_load_user_config"}

\* The validated form of a raw value of a registered key.
Validated(k, raw) == ApplyValidator(validators[k], raw).val

Rejected(k, raw) == ApplyValidator(validators[k], raw).exc # "none"

\* The file a load call read: load_from_file looks for the name as given
\* and then under the user configuration directory; the import reads
\* USER_CONFIG.
LoadedPath(l) ==
    IF l.op = "load_from_file"
    THEN IF PathExists(fs, ExpandUser(ParsePath(l.arg)))
         THEN ExpandUser(ParsePath(l.arg))
         ELSE PathJoin(USER_CONFIG_DIR, ParsePath(l.arg))
    ELSE IF l.arg = "" THEN USER_CONFIG ELSE ParsePath(l.arg)

\* The user mapping of a load call (empty for a missing file that the
\* caller tolerates) and the default mapping.
UserMapping(l) ==
    IF Failed(read_config_file(fs, LoadedPath(l), 0)) THEN <<>>
    ELSE read_config_file(fs, LoadedPath(l), 0).cfg

DefaultMapping == read_config_file(fs, DEFAULT_CONFIG, 0).cfg

AbsPath(parts) == PathV([abs |-> TRUE, parts |-> parts])

\* C1: a load that fails on an unknown key or an invalid value leaves the
\* live configuration with exactly the keys and values it had before the
\* load began.
C1_FailedLoadKeepsConfig ==
    [][(IsLoad(last') /\ last'.err.type = "InvalidConfigParameter")
          => DictMap(heap'[config']) = DictMap(heap[config])]_vars

\* C2: the mapping read_config_file returns holds, for every key the
\* document read defines itself, that document's value; the included file
\* supplies only the keys the document does not define.
C2_CurrentLevelWins ==
    (last.op = "read_config_file" /\ last.err = NoErr)
        => \A k \in DictKeys(fs[Absolute(ParsePath(last.arg)).parts]) \ {"site", "include"} :
              /\ DictHas(last.ret.d, k)
              /\ DictGet(last.ret.d, k)
                     = DictGet(fs[Absolute(ParsePath(last.arg)).parts], k)

\* The user document of a load call as the file holds it (empty for a
\* missing file that the caller tolerates).
UserDocument(l) ==
    IF PathExists(fs, LoadedPath(l)) THEN fs[Absolute(LoadedPath(l)).parts]
    ELSE <<>>

DefaultDocument == fs[DEFAULT_CONFIG.parts]

\* C3: after a successful load the live configuration holds, for every key
\* of the default document, the validated user value when the user
\* document defines the key and the validated default value otherwise.
C3_UserOverDefault ==
    (IsLoad(last) /\ last.err = NoErr)
        => \A k \in DictKeys(DefaultDocument) :
              /\ DictHas(heap[config], k)
              /\ DictGet(heap[config], k)
                     = Validated(k, IF DictHas(UserDocument(last), k)
                                    THEN DictGet(UserDocument(last), k)
                                    ELSE DictGet(DefaultDocument, k))

\* The same precedence stated over the mappings read_config_file returns
\* for the two files, which is what _load_user_config merges.
UserMappingOverDefault ==
    (IsLoad(last) /\ last.err = NoErr)
        => \A k \in DictKeys(DefaultMapping) :
              /\ DictHas(heap[config], k)
              /\ DictGet(heap[config], k)
                     = Validated(k, IF DictHas(UserMapping(last), k)
                                    THEN DictGet(UserMapping(last), k)
                                    ELSE DictGet(DefaultMapping, k))

\* default output_dir /tmp/default, user output_dir /tmp/user: the live
\* output_dir is /tmp/user and auxiliary_data_dir the default's.
UserValueLoaded ==
    /\ last = Call("load_from_file", "user.yml", NoneV, NoErr, NoneV)
    /\ DictGet(fs[DEFAULT_CONFIG.parts], "output_dir") = StrV("/tmp/default")
    /\ DictGet(heap[config], "output_dir") = AbsPath(<<"tmp", "user">>)
    /\ DictGet(heap[config], "auxiliary_data_dir") = AbsPath(<<"work", "aux">>)

\* C4: a set with a value the key's validator rejects, whatever exception
\* the validator raises, fails with InvalidConfigParameter naming the key
\* and leaves the mapping as it was.
C4_RejectedIsInvalidConfigParameter ==
    [][(/\ last'.op = "set"
        /\ last'.arg \in DOMAIN validators
        /\ Rejected(last'.arg, last'.val))
          => (/\ last'.err.type = "InvalidConfigParameter"
              /\ last'.err.key = last'.arg
              /\ heap' = heap)]_vars

\* C5: a set on a key without a validator fails with the unknown-key error
\* naming the key and leaves the mapping unchanged; through update and
\* construction the key raises the same error, and no Config ever holds it.
C5_SetUnknownFails ==
    (last'.op = "set" /\ last'.arg \notin DOMAIN validators)
        => (/\ last'.err = Err("InvalidConfigParameter", last'.arg, "KeyError")
            /\ heap' = heap)

C5_NeverStored ==
    /\ \A i \in Ids : DictKeys(heap[i]) \subseteq DOMAIN validators
    /\ last.op = "Config" => DictKeys(last.ret.d) \subseteq DOMAIN validators

C5_UpdateUnknownFails ==
    last.op \in {"update", "Config"}
        => \A i \in DOMAIN last.val.d :
              (/\ last.val.d[i][1] \notin DOMAIN validators
               /\ \A j \in 1..(i - 1) :
                     /\ last.val.d[j][1] \in DOMAIN validators
                     /\ ~Rejected(last.val.d[j][1], last.val.d[j][2]))
                  => last.err = Err("InvalidConfigParameter", last.val.d[i][1], "KeyError")

C5_UnknownKeyFails ==
    /\ [][C5_SetUnknownFails]_vars
    /\ [](C5_NeverStored /\ C5_UpdateUnknownFails)

C5_Witness ==
    /\ last.op = "update"
    /\ last.err = Err("InvalidConfigParameter", "foo_bar", "KeyError")
    /\ DictGet(heap[config], "output_dir") = AbsPath(<<"tmp", "upd">>)

\* C6: after the import and after every successful reload every project
\* key the live configuration holds maps to a ProjectData.
C6_ProjectsAreProjectData ==
    (/\ pc = "ready"
     /\ last.op \in {"projects", "load_from_file"}
     /\ last.err = NoErr)
        => \A k \in ProjectKeySet :
              DictHas(heap[config], k) => DictGet(heap[config], k).t = "ProjectData"

\* C7: config is bound to the same object before and after every reload,
\* and so is its alias drs_config once bound.
C7_SameIdentity ==
    /\ config = 2
    /\ pc = "ready" => drs_config = config

\* A reference taken before the reload (drs_config) reads the reloaded
\* value.
C7_Witness ==
    /\ last = Call("load_from_file", "user.yml", NoneV, NoErr, NoneV)
    /\ drs_config # 0
    /\ DictGet(heap[drs_config], "output_dir") = AbsPath(<<"tmp", "user">>)

\* The mapping select_group(group) has to return: the keys that begin with
\* the literal group and a dot, stripped of that prefix.
HasPrefix(key, prefix) ==
    Len(key) >= Len(prefix) /\ SubSeq(key, 1, Len(prefix)) = prefix

LiteralGroup(d, group) ==
    [k \in {SubSeq(key, Len(group) + 2, Len(key)) :
                key \in {x \in DictKeys(d) : HasPrefix(x, group \o ".")}} |->
        DictGet(d, group \o "." \o k)]

\* C8: select_group(group) returns exactly the keys that begin with the
\* literal "group.", stripped of the prefix, with the source's values.
C8_SelectGroupLiteralPrefix ==
    (last.op = "select_group" /\ last.err = NoErr)
        => DictMap(last.ret.d) = LiteralGroup(heap[config], last.arg)

\* C9: set(key, raw) then get(key) returns validator(raw), also when the
\* key was set before; get on an absent key raises KeyError.
C9_SetStoresValidated ==
    (last'.op = "set" /\ last'.err = NoErr)
        => GetItem(heap'[config'], last'.arg)
               = [val |-> Validated(last'.arg, last'.val), err |-> NoErr]

C9_GetAfterSet ==
    (last.op = "set" /\ last.err = NoErr /\ last'.op = "get" /\ last'.arg = last.arg)
        => (last'.err = NoErr /\ last'.ret = Validated(last.arg, last.val))

C9_Get ==
    last.op = "get"
        => IF DictHas(heap[config], last.arg)
           THEN last.err = NoErr /\ last.ret = DictGet(heap[config], last.arg)
           ELSE last.err = Err("KeyError", last.arg, "")

C9_RoundTrip ==
    /\ [][C9_SetStoresValidated /\ C9_GetAfterSet]_vars
    /\ []C9_Get

C9_Witness ==
    /\ last = Call("get", "output_dir", NoneV, NoErr, AbsPath(<<"work", "rel", "out">>))
    /\ DictGet(fs[USER_CONFIG.parts], "output_dir") = StrV("~/out")

\* C10: iterating the live configuration yields every stored key exactly
\* once, in ascending order, as many keys as len() counts.
C10_SortedIteration ==
    /\ Len(ConfigIter(heap[config])) = ConfigLen(heap[config])
    /\ {ConfigIter(heap[config])[i] : i \in 1..ConfigLen(heap[config])}
           = DictKeys(heap[config])
    /\ \A i \in 1..(ConfigLen(heap[config]) - 1) :
          StrLess(ConfigIter(heap[config])[i], ConfigIter(heap[config])[i + 1])
    /\ last.op = "iter"
          => /\ last.ret.items = ConfigIter(heap[config])
             /\ last.ret.n = ConfigLen(heap[config])

\* An iteration over keys that were not inserted in ascending order, after
\* a clear and two writes.
C10_Witness ==
    /\ last.op = "iter"
    /\ DictIter(heap[config]) = <<"output_dir", "diagnostics">>
    /\ last.ret.items = <<"diagnostics", "output_dir">>

\* The strings a pattern the callers pass denotes, and whether the pattern
\* is anchored at the start of the key.
PatternWords(p) ==
    CASE p = "CMIP[56]"   -> {"CMIP5", "CMIP6"}
      [] p = "output_dir" -> {"output_dir"}
      [] p = "^OBS"       -> {"OBS"}
      [] p = "dir"        -> {"dir"}

PatternAnchored(p) == p = "^OBS"

OccursAt(w, key, i) ==
    i + Len(w) - 1 <= Len(key) /\ SubSeq(key, i, i + Len(w) - 1) = w

Matches(p, key) ==
    \E w \in PatternWords(p) :
        \E i \in (IF PatternAnchored(p) THEN {1} ELSE 1..Len(key)) :
            OccursAt(w, key, i)

\* C11: find_all(pattern) does not fail on the live configuration and
\* returns exactly the keys in which the pattern matches somewhere, each
\* with the value the source stores.
C11_FindAllSearch ==
    last.op = "find_all"
        => /\ last.err = NoErr
           /\ DictMap(last.ret.d)
                  = [k \in {x \in DictKeys(heap[config]) : Matches(last.arg, x)} |->
                        DictGet(heap[config], k)]

\* "dir" matches inside output_dir and auxiliary_data_dir.
C11_Witness ==
    /\ last.op = "find_all"
    /\ last.arg = "dir"
    /\ DictKeys(last.ret.d) = {"output_dir", "auxiliary_data_dir"}
    /\ DictGet(last.ret.d, "output_dir") = DictGet(heap[config], "output_dir")

IsSourceWrite(l) == l.op \in {"set", "update", "del", "clear"}

IsKeptWrite(l) == l.op \in {"kept.set", "kept.del"}

\* C12: a write to a mapping find_all or select_group returned never
\* changes the source, and a write to the source never changes the mapping
\* returned before.
C12_KeptWriteLeavesSource ==
    (held.of \in {"find_all", "select_group"} /\ IsKeptWrite(last'))
        => heap'[config'] = heap[config]

C12_SourceWriteLeavesKept ==
    (held.of \in {"find_all", "select_group"} /\ IsSourceWrite(last'))
        => (held' = held /\ heap'[held.id] = heap[held.id])

C12_ProjectionIndependent ==
    [][C12_KeptWriteLeavesSource /\ C12_SourceWriteLeavesKept]_vars

\* output_dir was replaced in the mapping find_all returned; the source
\* still has its own.
C12_Witness ==
    /\ held.of = "find_all"
    /\ last = Call("kept.set", "output_dir", StrV("rel/kept"), NoErr, NoneV)
    /\ DictGet(heap[held.id], "output_dir") = AbsPath(<<"work", "rel", "kept">>)
    /\ DictGet(heap[config], "output_dir") # DictGet(heap[held.id], "output_dir")

\* C13: copy() returns a plain dict with the keys and stored values of the
\* source; afterwards a write to the copy leaves the source unchanged (and
\* a write to the source the copy).
C13_CopyEqualsSource ==
    last.op = "copy"
        => /\ held.cls = "dict"
           /\ held.id \notin {config, config_default, config_orig}
           /\ DictMap(heap[held.id]) = DictMap(heap[config])
           /\ last.ret.d = heap[held.id]

C13_CopyWriteLeavesSource ==
    (held.of = "copy" /\ IsKeptWrite(last')) => heap'[config'] = heap[config]

C13_SourceWriteLeavesCopy ==
    (held.of = "copy" /\ IsSourceWrite(last'))
        => (held' = held /\ heap'[held.id] = heap[held.id])

C13_CopyIndependent ==
    /\ []C13_CopyEqualsSource
    /\ [][C13_CopyWriteLeavesSource /\ C13_SourceWriteLeavesCopy]_vars

\* An entry was removed from the copy; the source still has it.
C13_Witness ==
    /\ held.of = "copy"
    /\ last = Call("kept.del", "CMIP6", NoneV, NoErr, NoneV)
    /\ ~DictHas(heap[held.id], "CMIP6")
    /\ DictHas(heap[config], "CMIP6")

\* The file a load call names is not there.
FileMissing(l) ==
    IF l.op = "load_from_file"
    THEN /\ ~PathExists(fs, ExpandUser(ParsePath(l.arg)))
         /\ ~PathExists(fs, PathJoin(USER_CONFIG_DIR, ParsePath(l.arg)))
    ELSE ~PathExists(fs, LoadedPath(l))

\* C14: a load of a user configuration file that does not exist, made
\* without an explicit flag, succeeds and leaves the live configuration
\* equal to the validated defaults.
C14_MissingFileNonFatalByDefault ==
    (IsLoad(last) /\ last.val = NoneV /\ FileMissing(last))
        => /\ last.err = NoErr
           /\ DictMap(heap[config]) = DictMap(heap[config_default])

\* What the code does: without a flag the missing file ends the load with
\* an error and the live configuration is not touched; with the flag
\* given as False the load succeeds with the defaults.
C14_MissingFileFatalByDefault ==
    [][(IsLoad(last') /\ FileMissing(last'))
          => IF last'.val = BoolV(FALSE)
             THEN /\ last'.err = NoErr
                  /\ DictMap(heap'[config']) = DictMap(heap'[config_default'])
             ELSE /\ last'.err.type \in {"FileNotFoundError", "IOError"}
                  /\ heap' = heap]_vars

\* The project keys whose entry, in the documents a load reads (the
\* default document overlaid by the user's), has a data list that is
\* present and empty.
EmptyDataIn(m) ==
    { k \in ProjectKeySet :
        /\ DictHas(m, k)
        /\ DictGet(m, k).t = "dict"
        /\ DictHas(DictGet(m, k).d, "data")
        /\ DictGet(DictGet(m, k).d, "data") = ListV(<<>>) }

\* The project keys whose entry is a ProjectData with an empty data list.
FinalizedEmpty(m) ==
    { k \in ProjectKeySet :
        /\ DictHas(m, k)
        /\ DictGet(m, k).t = "ProjectData"
        /\ DictGet(m, k).data = <<>> }

EmptyDataProjects(l) == EmptyDataIn(DictUpdate(DefaultMapping, UserMapping(l)))

\* A load that has come to its end: a reload, or the last step of the
\* import.
IsWholeLoad(l) == (IsLoad(l) /\ l.arg # "") \/ l.op = "projects"

\* C15: a load whose documents give a project key an empty data list
\* fails with EmptyProjectDataError naming that project, and no project
\* entry of the live configuration has an empty data list.
C15_EmptyDataFails ==
    /\ (IsWholeLoad(last) /\ EmptyDataProjects(last) # {})
           => /\ last.err.type = "EmptyProjectDataError"
              /\ last.err.key \in EmptyDataProjects(last)
    /\ (IsWholeLoad(last) /\ last.err = NoErr)
           => EmptyDataIn(heap[config]) \cup FinalizedEmpty(heap[config]) = {}

\* What holds: the import, which runs the project loop, fails for the
\* project with the empty list, and every ProjectData stored has a
\* non-empty data list.
C15_ImportEmptyDataFails ==
    /\ (last.op = "projects" /\ EmptyDataProjects(last) # {})
           => /\ last.err.type = "EmptyProjectDataError"
              /\ last.err.key \in EmptyDataProjects(last)
    /\ FinalizedEmpty(heap[config]) = {}

RequiredDRSKeys == {"rootpath", "input_dir", "input_file"}

\* A raw mapping BaseDRS must not accept: a required key is missing, or a
\* key is not registered, or a value is rejected by its validator.
BadDRSMapping(m) ==
    \/ \E k \in RequiredDRSKeys : ~DictHas(m, k)
    \/ \E i \in DOMAIN m :
          \/ m[i][1] \notin DOMAIN drs_validators
          \/ ApplyValidator(drs_validators[m[i][1]], m[i][2]).exc # "none"

\* C16: a constructed BaseDRS has rootpath, input_dir and input_file with
\* validated values and its rootpath accessor does not fail; construction
\* from a mapping that lacks one of them or has an invalid key fails.
C16_RecordIsComplete ==
    /\ (last.op = "BaseDRS" /\ last.err = NoErr)
           => \A k \in RequiredDRSKeys :
                 /\ DictHas(last.ret.d, k)
                 /\ DictGet(last.ret.d, k)
                       = ApplyValidator(drs_validators[k], DictGet(last.val.d, k)).val
    /\ (last.op = "BaseDRS" /\ BadDRSMapping(last.val.d)) => last.err # NoErr
    /\ last.op = "rootpath" => last.err = NoErr

\* What holds: the keys a constructed BaseDRS has are those of the raw
\* mapping, each registered and holding its validated value; a mapping
\* with an unregistered key or a rejected value yields no record.
C16_ProvidedKeysValidated ==
    /\ (last.op = "BaseDRS" /\ last.err = NoErr)
           => /\ DictKeys(last.ret.d) = DictKeys(last.val.d)
              /\ DictKeys(last.ret.d) \subseteq RequiredDRSKeys
              /\ \A k \in DictKeys(last.ret.d) :
                    DictGet(last.ret.d, k)
                      = ApplyValidator(drs_validators[k], DictGet(last.val.d, k)).val
    /\ (last.op = "BaseDRS" /\ last.err # NoErr)
           => /\ last.ret = NoneV
              /\ last.err.type = "InvalidConfigParameter"
    /\ (last.op = "rootpath" /\ last.err # NoErr)
           => (last.err = Err("KeyError", "rootpath", "")
               /\ ~DictHas(heap[held.id], "rootpath"))

\* C17: a set, update, del or clear on the live configuration leaves
\* config_orig bound to the same object with the same keys and values; the
\* snapshot is an object of its own.
C17_WriteLeavesSnapshot ==
    IsSourceWrite(last')
        => /\ config_orig' = config_orig
           /\ heap'[config_orig] = heap[config_orig]

C17_SnapshotKept ==
    /\ [](config_orig # config)
    /\ [][C17_WriteLeavesSnapshot]_vars

\* The live output_dir was replaced after the load; the snapshot still has
\* the loaded one.
C17_Witness ==
    /\ pc = "ready"
    /\ last.op = "set" /\ last.arg = "output_dir" /\ last.err = NoErr
    /\ DictGet(heap[config], "output_dir") = Validated("output_dir", last.val)
    /\ DictHas(heap[config_orig], "output_dir")
    /\ DictGet(heap[config_orig], "output_dir") # DictGet(heap[config], "output_dir")

IsValidate(l, name) == l.op = "validate" /\ l.arg = name

\* The level a word names, whatever its letter case; 0 for a word that
\* names none.
NamedLevel(w) ==
    CASE w \in {"debug", "DEBUG", "dEBUG", "Debug"}       -> 1
      [] w \in {"info", "INFO", "iNfO"}                   -> 2
      [] w \in {"default", "DEFAULT", "Default"}          -> 3
      [] w \in {"warning", "WARNING", "Warning"}          -> 4
      [] OTHER                                            -> 0

\* C18: validate_check_level returns n for an integer n in 1..5 and the
\* level of a level name in any letter case; every other integer and every
\* other word fails with ValueError.
C18_CheckLevel ==
    IsValidate(last, "check_level")
        => CASE last.val.t = "int" ->
                  IF last.val.n \in 1..5
                  THEN last.err = NoErr /\ last.ret = IntV(last.val.n)
                  ELSE last.err.type = "ValueError"
             [] last.val.t = "str" ->
                  IF NamedLevel(last.val.s) > 0
                  THEN last.err = NoErr /\ last.ret = IntV(NamedLevel(last.val.s))
                  ELSE last.err.type = "ValueError"

C18_Witness ==
    /\ IsValidate(last, "check_level")
    /\ last.val = StrV("dEBUG")
    /\ last.err = NoErr
    /\ last.ret = IntV(1)

\* C19: validate_positive returns a number greater than zero unchanged,
\* fails with ValueError for zero and for a negative number, and fails with
\* TypeError for a value that is no number.
C19_Positive ==
    IsValidate(last, "positive")
        => CASE last.val.t = "int" ->
                  IF last.val.n > 0
                  THEN last.err = NoErr /\ last.ret = last.val
                  ELSE last.err.type = "ValueError"
             [] last.val.t = "float" ->
                  IF last.val.tenths > 0
                  THEN last.err = NoErr /\ last.ret = last.val
                  ELSE last.err.type = "ValueError"
             [] OTHER -> last.err.type = "TypeError"

C19_Witness ==
    /\ IsValidate(last, "positive")
    /\ last.val = StrV("fail")
    /\ last.err.type = "TypeError"

\* The path each string given to the path validators denotes: its components after the
\* working directory, the root, or the home directory.
ExpectedPaths ==
    { <<b[1] \o r[1], b[2] \o r[2]>> :
        b \in { <<"", <<"work">>>>, <<"/", <<>>>>, <<"~/", <<"home", "u">>>> },
        r \in { <<"a", <<"a">>>>, <<"a/b", <<"a", "b">>>>,
                <<"a/b/c", <<"a", "b", "c">>>>, <<"a/b/c/", <<"a", "b", "c">>>>,
                <<"out dir", <<"out dir">>>> } }
    \cup { <<"~/", <<"home", "u">>>>, <<"~", <<"home", "u">>>>, <<"/", <<>>>> }

\* C20: validate_path returns the absolute path of a string (relative to
\* the working directory, ~ replaced by the home directory) and fails with
\* ValueError for None, numbers, booleans and lists; validate_path_or_none
\* does the same except that it returns None for None.
C20_Path ==
    (IsValidate(last, "path") \/ IsValidate(last, "path_or_none"))
        => CASE last.val.t = "str" ->
                  /\ last.err = NoErr
                  /\ last.ret.t = "path"
                  /\ last.ret.p.abs
                  /\ \E e \in ExpectedPaths :
                        e[1] = last.val.s /\ last.ret = AbsPath(e[2])
             [] last.val.t = "none" /\ last.arg = "path_or_none" ->
                  last.err = NoErr /\ last.ret = NoneV
             [] OTHER -> last.err.type = "ValueError"

C20_Witness ==
    /\ IsValidate(last, "path")
    /\ last.val = StrV("a/b/c")
    /\ last.err = NoErr
    /\ last.ret = AbsPath(<<"work", "a", "b", "c">>)

\* The tokens of each string given to the list validator.
ExpectedTokens ==
    { <<"", <<>>>>, <<",", <<>>>>, <<" ", <<>>>>,
      <<"abc", <<"abc">>>>, <<"abc, ", <<"abc">>>>, <<"abc, ,", <<"abc">>>>,
      <<",a", <<"a">>>>, <<"a,b", <<"a", "b">>>>, <<" a , b ", <<"a", "b">>>>,
      <<"b,a", <<"b", "a">>>>, <<"a,a", <<"a", "a">>>>,
      <<"a,b,a", <<"a", "b", "a">>>> }

\* An element of a list as a string.
AsString(v) ==
    CASE v = IntV(1) -> StrV("1")
      [] v = IntV(2) -> StrV("2")
      [] OTHER       -> v

\* C21: the list-of-strings validator returns the stripped, non-empty
\* comma-separated tokens of a string and the elements of a list, tuple,
\* iterator or array as strings, in order and with duplicates; a set and a
\* scalar that is no string fail with ValueError.
C21_StringList ==
    IsValidate(last, "string_list")
        => CASE last.val.t = "str" ->
                  /\ last.err = NoErr
                  /\ \E e \in ExpectedTokens :
                        /\ e[1] = last.val.s
                        /\ last.ret = ListV([i \in DOMAIN e[2] |-> StrV(e[2][i])])
             [] last.val.t \in {"list", "tuple", "iter", "array"} ->
                  /\ last.err = NoErr
                  /\ last.ret = ListV([i \in DOMAIN last.val.items |->
                                          AsString(last.val.items[i])])
             [] OTHER -> last.err.type = "ValueError"

C21_Witness ==
    /\ IsValidate(last, "string_list")
    /\ last.val = StrV("abc, ,")
    /\ last.err = NoErr
    /\ last.ret = ListV(<<StrV("abc")>>)

\* C22: when a load has come to its end, config_orig has the keys and
\* values of the live configuration, a ProjectData for every project key.
C22_SnapshotAfterProjects ==
    (IsWholeLoad(last) /\ last.err = NoErr)
        => /\ DictMap(heap[config_orig]) = DictMap(heap[config])
           /\ \A k \in ProjectKeySet :
                 DictHas(heap[config_orig], k)
                     => DictGet(heap[config_orig], k).t = "ProjectData"

\* What the code does at import: the snapshot holds what config held
\* before the project loop ran, the raw entry of every project key.
C22_SnapshotBeforeProjects ==
    (last.op = "projects" /\ last.err = NoErr)
        => /\ DictKeys(heap[config_orig]) = DictKeys(heap[config])
           /\ \A k \in DictKeys(heap[config]) :
                 IF k \in ProjectKeySet
                 THEN /\ DictGet(heap[config], k).t = "ProjectData"
                      /\ DictGet(heap[config_orig], k).t = "dict"
                 ELSE DictGet(heap[config_orig], k) = DictGet(heap[config], k)

\* The project keys the documents of a load define.
ProjectsPresent(l) ==
    ProjectKeySet \cap DictKeys(DictUpdate(DefaultMapping, UserMapping(l)))

\* C23: the project loop of the import completes when a project key is in
\* neither document: the keys that are present become ProjectData and the
\* absent one stays absent.
C23_AbsentProjectSkipped ==
    (last.op = "projects" /\ ProjectsPresent(last) # ProjectKeySet
        /\ EmptyDataProjects(last) = {})
        => /\ last.err = NoErr
           /\ \A k \in ProjectKeySet :
                 IF k \in ProjectsPresent(last)
                 THEN /\ DictHas(heap[config], k)
                      /\ DictGet(heap[config], k).t = "ProjectData"
                 ELSE ~DictHas(heap[config], k)

\* What the code does: the loop subscripts config with each of the ten
\* keys, so the first absent one ends the import with KeyError; the keys
\* after it in the loop's order keep their raw entries.
C23_AbsentProjectIsKeyError ==
    (last.op = "projects" /\ ProjectsPresent(last) # ProjectKeySet)
        => \E i \in DOMAIN ProjectKeys :
              /\ ProjectKeys[i] \notin ProjectsPresent(last)
              /\ last.err = Err("KeyError", ProjectKeys[i], "")
              /\ pc # "ready"
              /\ \A j \in DOMAIN ProjectKeys :
                    (j > i /\ DictHas(heap[config], ProjectKeys[j]))
                        => DictGet(heap[config], ProjectKeys[j]).t = "dict"

\* The document a read_config_file call of a.yml or b.yml names, its
\* keys other than site and include, its site ("" when it has none) and
\* the include it declares ("" when it has none).
ReadDoc(l) == fs[<<"work", l.arg>>]

OwnKeys(doc) == DictKeys(doc) \ {"site", "include"}

SiteOf(doc) == IF DictHas(doc, "site") THEN DictGet(doc, "site").s ELSE ""

IncludeOf(doc) == IF DictHas(doc, "include") THEN DictGet(doc, "include").s ELSE ""

\* The two places an included name is looked for, in order: the working
\* directory and the package directory; the first that has the file, or
\* <<>> when neither has.
ChosenInclude(inc) ==
    IF <<"work", inc>> \in DOMAIN fs THEN <<"work", inc>>
    ELSE IF <<"pkg", inc>> \in DOMAIN fs THEN <<"pkg", inc>>
    ELSE <<>>

IsReadOfDoc(l) == l.op = "read_config_file" /\ l.arg \in {"a.yml", "b.yml"}

\* C24: the file a document's include names is the one in the working
\* directory when it is there and otherwise the one in the package
\* directory; it supplies the keys the document does not define. When the
\* file is in neither place the call fails with an I/O error and returns
\* no mapping.
C24_IncludeCandidates ==
    (IsReadOfDoc(last) /\ SiteOf(ReadDoc(last)) = ""
        /\ IncludeOf(ReadDoc(last)) # "")
        => IF ChosenInclude(IncludeOf(ReadDoc(last))) = <<>>
           THEN last.err.type = "IOError" /\ last.ret = NoneV
           ELSE (/\ IncludeOf(fs[ChosenInclude(IncludeOf(ReadDoc(last)))]) = ""
                 /\ SiteOf(fs[ChosenInclude(IncludeOf(ReadDoc(last)))]) = "")
                => /\ last.err = NoErr
                   /\ DictKeys(last.ret.d)
                        = OwnKeys(ReadDoc(last))
                          \cup OwnKeys(fs[ChosenInclude(IncludeOf(ReadDoc(last)))])
                   /\ \A k \in OwnKeys(fs[ChosenInclude(IncludeOf(ReadDoc(last)))])
                               \ OwnKeys(ReadDoc(last)) :
                         DictGet(last.ret.d, k)
                           = DictGet(fs[ChosenInclude(IncludeOf(ReadDoc(last)))], k)

\* c.yml is in both places and a.yml, which defines no key, includes it:
\* the values are those of the working directory's c.yml.
C24_Witness ==
    /\ last.op = "read_config_file" /\ last.arg = "a.yml" /\ last.err = NoErr
    /\ fs[<<"work", "a.yml">>] = << <<"include", StrV("c.yml")>> >>
    /\ <<"work", "c.yml">> \in DOMAIN fs
    /\ <<"pkg", "c.yml">> \in DOMAIN fs
    /\ DictGet(last.ret.d, "output_dir") = StrV("/w/output_dir")

\* C25: a document with a non-empty site is merged with config-<site>.yml
\* of the package directory and with nothing of the include it declares;
\* no mapping read_config_file returns has a site or an include key.
C25_SiteInclude ==
    /\ (IsReadOfDoc(last) /\ SiteOf(ReadDoc(last)) = "dkrz")
           => /\ last.err = NoErr
              /\ DictKeys(last.ret.d) = OwnKeys(ReadDoc(last)) \cup {"output_dir"}
              /\ \A k \in DictKeys(last.ret.d) :
                    \/ DictGet(last.ret.d, k) = StrV("/dkrz/" \o k)
                    \/ /\ k \in OwnKeys(ReadDoc(last))
                       /\ DictGet(last.ret.d, k) = DictGet(ReadDoc(last), k)
              /\ "output_dir" \notin OwnKeys(ReadDoc(last))
                    => DictGet(last.ret.d, "output_dir") = StrV("/dkrz/output_dir")
    /\ (last.op = "read_config_file" /\ last.err = NoErr)
           => DictKeys(last.ret.d) \cap {"site", "include"} = {}

\* a.yml has site dkrz and declares the include c.yml, which is there: the
\* result has the site file's output_dir and nothing of c.yml.
C25_Witness ==
    /\ last.op = "read_config_file" /\ last.arg = "a.yml" /\ last.err = NoErr
    /\ fs[<<"work", "a.yml">>]
          = << <<"include", StrV("c.yml")>>, <<"site", StrV("dkrz")>> >>
    /\ last.ret = DictV(<< <<"output_dir", StrV("/dkrz/output_dir")>> >>)

\* C26: once the module is initialised, config_default is the same object
\* with the validated keys and values of the default document, whatever
\* reload or write follows.
C26_DefaultHolds ==
    pc = "ready"
        => /\ DictKeys(heap[config_default]) = DictKeys(DefaultMapping)
           /\ \A k \in DictKeys(DefaultMapping) :
                 DictGet(heap[config_default], k)
                    = Validated(k, DictGet(DefaultMapping, k))

C26_DefaultUnchanged ==
    /\ []C26_DefaultHolds
    /\ [][pc = "ready"
             => /\ config_default' = config_default
                /\ heap'[config_default] = heap[config_default]]_vars

\* A reload from a user document has succeeded and changed output_dir in
\* the live configuration; config_default has the default's.
C26_Witness ==
    /\ pc = "ready"
    /\ last.op = "load_from_file" /\ last.arg = "user.yml" /\ last.err = NoErr
    /\ DictGet(heap[config], "output_dir") = AbsPath(<<"tmp", "user">>)
    /\ DictGet(heap[config_default], "output_dir") = AbsPath(<<"tmp", "default">>)

\* The call stack never nests deeper than the recursion limit allows, so a
\* file is opened at most that many times in one call.
StackBounded ==
    /\ Len(stack) <= MaxIncludeDepth + 2
    /\ \A f \in DOMAIN fs :
          Cardinality({i \in DOMAIN stack :
                          /\ stack[i].at # "entered"
                          /\ Absolute(stack[i].config_file).parts = f})
             <= MaxIncludeDepth + 1

\* A call that has ended has returned the merged mapping or raised the
\* error that read_config_file, taken as a function, gives.
EndedAsFunction ==
    (stack = <<>> /\ last.op = "read_config_file")
        => LET r == read_config_file(fs, ParsePath(last.arg), 0)
           IN  /\ last.err = r.err
               /\ last.ret = IF Failed(r) THEN NoneV ELSE DictV(r.cfg)

C28_ReloadIsOverlay ==
    (pc = "ready" /\ IsLoad(last) /\ last.err = NoErr)
        => /\ DictKeys(heap[config])
                 = DictKeys(heap[config_default]) \cup DictKeys(UserMapping(last))
           /\ \A k \in DictKeys(heap[config]) :
                 DictGet(heap[config], k)
                    = IF DictHas(UserMapping(last), k)
                      THEN Validated(k, DictGet(UserMapping(last), k))
                      ELSE DictGet(heap[config_default], k)

\* user.yml, which sets output_dir only, has been reloaded: diagnostics,
\* which has no default, is absent, output_dir is the user's and
\* auxiliary_data_dir the default's.
C28_Witness ==
    /\ pc = "ready"
    /\ last = Call("load_from_file", "user.yml", NoneV, NoErr, NoneV)
    /\ ~DictHas(heap[config_default], "diagnostics")
    /\ ~DictHas(heap[config], "diagnostics")
    /\ DictGet(heap[config], "output_dir") = AbsPath(<<"tmp", "user">>)
    /\ DictHas(heap[config_default], "auxiliary_data_dir")
    /\ DictGet(heap[config], "auxiliary_data_dir")
          = DictGet(heap[config_default], "auxiliary_data_dir")

\* C29: a load of a file that is not there, by load_from_file or by
\* _load_user_config with raise_exception set, fails with the missing-file
\* error (FileNotFoundError from load_from_file, IOError from
\* read_config_file) and leaves config, config_default and config_orig the
\* same objects with the same keys and values.
C29_MissingFileTouchesNothing ==
    [][(pc = "ready" /\ IsLoad(last') /\ FileMissing(last')
            /\ last'.val # BoolV(FALSE))
          => /\ last'.err.type = IF last'.op = "load_from_file"
                                 THEN "FileNotFoundError" ELSE "IOError"
             /\ heap' = heap
             /\ config' = config
             /\ config_default' = config_default
             /\ config_orig' = config_orig]_vars

\* load_from_file('nope.yml') has failed while the live configuration
\* holds the output_dir of user.yml, loaded before.
C29_Witness ==
    /\ pc = "ready"
    /\ last.op = "load_from_file" /\ last.arg = "nope.yml"
    /\ FileMissing(last)
    /\ last.err.type = "FileNotFoundError"
    /\ DictGet(heap[config], "output_dir") = AbsPath(<<"tmp", "user">>)
    /\ DictGet(heap[config_orig], "output_dir") = AbsPath(<<"tmp", "user">>)
    /\ DictGet(heap[config_default], "output_dir") = AbsPath(<<"tmp", "default">>)

\* C30: a value a validator has returned is accepted by the same validator
\* and returned unchanged, for every validator and every accepted input;
\* a ProjectData given to the validator of a project key comes back as it
\* is.
C30_Revalidation ==
    /\ (last.op = "validate" /\ last.err = NoErr)
           => ApplyValidator(last.arg, last.ret) = Ok(last.ret)
    /\ (IsValidate(last, "project") /\ last.val.t = "ProjectData")
           => /\ last.err = NoErr
              /\ last.ret = last.val

\* The diagnostics validator has turned 'a b' into the set of a/* and b/*,
\* which it returns unchanged when given it.
C30_Witness ==
    /\ IsValidate(last, "diagnostics")
    /\ last.val = StrV("a b")
    /\ last.ret = SetV({"a/*", "b/*"})
    /\ validate_diagnostics(last.ret) = Ok(SetV({"a/*", "b/*"}))

\* A ProjectData has been given to the validator of a project key and has
\* come back.
RevalidatedProjectData ==
    /\ IsValidate(last, "project")
    /\ last.val.t = "ProjectData"
    /\ last.ret = last.val

====
